---------------------------- MODULE Spec2Model ----------------------------
(***************************************************************************)
(* A model of discord_dm_analyser: the TimeQuantity duration value, the    *)
(* dataset reducers, the Graph bucket aggregator with its text rendering,  *)
(* standard_deviation, the call_graph report that splits every call over   *)
(* the 10-minute buckets of a day, the call_png report that splits every   *)
(* call over buckets of 15 seconds and draws one column per bucket, and    *)
(* the menu in which the reports are selected.                             *)
(*                                                                         *)
(* Time is counted in milliseconds, as in the source.  A NaiveDateTime is  *)
(* the number of milliseconds since midnight of day 0 (the export's        *)
(* timestamps carry milliseconds).  usize is 64 bits wide in the program;  *)
(* every value of the model stays far below 2^31, so no operation of the   *)
(* model wraps.                                                            *)
(***************************************************************************)
EXTENDS Integers, Sequences, FiniteSets, TLC

VARIABLES
    \* ---- pure-function harness (TimeQuantity, reducers, standard_deviation)
    in_u,       \* a usize operand: a millisecond count
    in_list,    \* a list of usize operands
    in_k,       \* a usize scalar: a factor or a divisor
    out,        \* the last operation applied and its result
    \* ---- Graph (data.rs:141-203)
    graph,      \* the struct's fields: labels, authors, data, start_idx,
                \* width, sum (the reducer), and label_calls: the arguments
                \* label_fn has been invoked with, in order
    adds,       \* the calls of Graph::add so far: [author, idx, quantity, ret]
    rendered,   \* the outcome of Display::fmt; status "none" before it
    \* ---- call_graph (main.rs:515-544)
    dms,        \* the DirectMessages: [authors, calls]
    pos,        \* how many calls the for loop has consumed
    pc,         \* where the report is
    index,      \* the local `index`
    remaining_millis,  \* the local `remaining_millis`
    png_quantities,    \* call_png: the buckets added to so far, by index;
                       \* every other bucket holds its initial zeros
    png_adds,          \* history: the additions call_png made to its buckets
    ms_per_px,         \* call_png: the local `ms_per_px`
    x,                 \* call_png: the column of the for loop
    heights,           \* call_png: the local `heights` of the column
    stack_idx,         \* call_png: the `idx` of the author being drawn
    remaining_quantity,  \* call_png: the local `remaining_quantity`
    y,                 \* call_png: the local `y`
    image,             \* call_png: the blends made on the base image, by
                       \* column and author, in the order made
    \* ---- select_data_calculations (main.rs:64-174)
    selected,          \* the local `selected`: one toggle per report
    selected_line,     \* the local `selected_line`
    screen,            \* the terminal: for each line, the toggle and the
                       \* highlight display_line last drew there
    returned,          \* the indices of the reports returned, in order
    key,               \* history: the input read_valid_input returned last
    presses,           \* history: how many inputs the loop has handled
    toggles            \* history: how many times each line was toggled

pngVars == <<png_quantities, png_adds, ms_per_px, x, heights, stack_idx,
             remaining_quantity, y, image>>

menuVars == <<selected, selected_line, screen, returned, key, presses,
              toggles>>

vars == <<in_u, in_list, in_k, out, graph, adds, rendered, dms, pos, pc,
          index, remaining_millis, pngVars, menuVars>>

fnVars == <<in_u, in_list, in_k, out>>
graphVars == <<graph, adds, rendered>>
callVars == <<dms, pos, pc, index, remaining_millis>>

(***************************************************************************)
(* Bounds of the model.                                                    *)
(***************************************************************************)
MaxLen == 2       \* longest list of durations given to the duration operations
MaxK == 2         \* largest factor and divisor given to them
MaxDays == 1      \* their operands reach MaxDays whole days
SdMaxLen == 5     \* longest list of bucket totals given to standard_deviation
SdMaxVal == 5     \* largest bucket total given to it
MaxAdds == 2      \* calls of Graph::add made on a graph used directly
MaxIdx == 2       \* largest bucket index given to them
MaxStart == 2     \* largest start_idx such a graph is constructed with
MaxCalls == 1     \* calls in the message log read by call_graph

(***************************************************************************)
(* Helpers on sequences.                                                   *)
(***************************************************************************)
\* The sum of a sequence of numbers, by halves.
RECURSIVE SeqSum(_)
SeqSum(s) ==
    IF s = <<>> THEN 0
    ELSE IF Len(s) = 1 THEN s[1]
    ELSE LET h == Len(s) \div 2
         IN  SeqSum(SubSeq(s, 1, h)) + SeqSum(SubSeq(s, h + 1, Len(s)))

SeqsUpTo(S, n) == UNION {[1..m -> S] : m \in 0..n}

Min2(a, b) == IF a <= b THEN a ELSE b
Max2(a, b) == IF a >= b THEN a ELSE b

\* usize::saturating_sub
saturating_sub(a, b) == IF a >= b THEN a - b ELSE 0

(***************************************************************************)
(* TimeQuantity (data.rs:9-115).                                           *)
(***************************************************************************)
TimeQuantity_new(days, hours, minutes, seconds, milliseconds) ==
    [days |-> days, hours |-> hours, minutes |-> minutes,
     seconds |-> seconds, milliseconds |-> milliseconds]

ZERO == TimeQuantity_new(0, 0, 0, 0, 0)

\* A plausible slip: the days are not subtracted from the count before the
\* hours are taken.
From_usize_days_kept(ms) ==
    LET days == ms \div (1000 * 60 * 60 * 24)
        hours == ms \div (1000 * 60 * 60)
        ms2 == ms - hours * (1000 * 60 * 60)
        minutes == ms2 \div (1000 * 60)
        ms3 == ms2 - minutes * (1000 * 60)
        seconds == ms3 \div 1000
        ms4 == ms3 - seconds * 1000
    IN  TimeQuantity_new(days, hours, minutes, seconds, ms4)

\* impl From<usize> for TimeQuantity
From_usize(ms) ==
    LET days == ms \div (1000 * 60 * 60 * 24)
        ms1 == ms - days * (1000 * 60 * 60 * 24)
        hours == ms1 \div (1000 * 60 * 60)
        ms2 == ms1 - hours * (1000 * 60 * 60)
        minutes == ms2 \div (1000 * 60)
        ms3 == ms2 - minutes * (1000 * 60)
        seconds == ms3 \div 1000
        ms4 == ms3 - seconds * 1000
    IN  TimeQuantity_new(days, hours, minutes, seconds, ms4)

\* impl From<TimeDelta> for TimeQuantity (data.rs:53-57), the TimeDelta in
\* milliseconds: value.num_milliseconds().max(0) as usize.
From_TimeDelta(value) == From_usize(Max2(value, 0))

\* impl From<TimeQuantity> for usize
Into_usize(time) ==
      time.days * (1000 * 60 * 60 * 24)
    + time.hours * (1000 * 60 * 60)
    + time.minutes * (1000 * 60)
    + time.seconds * (1000)
    + time.milliseconds

\* The decimal digits of n, as the characters write! prints.
decimal(n) ==
    LET digit(d) == <<"0", "1", "2", "3", "4", "5", "6", "7", "8", "9">>[d + 1]
        RECURSIVE digits(_)
        digits(m) == IF m < 10 THEN <<digit(m)>>
                     ELSE Append(digits(m \div 10), digit(m % 10))
    IN  digits(n)

\* {n:0w}: n in decimal, with zeros before it up to w characters.
zero_padded(n, w) ==
    LET d == decimal(n)
    IN  [i \in 1..(IF Len(d) < w THEN w - Len(d) ELSE 0) |-> "0"] \o d

\* The fields of the format strings of data.rs:120-128 and 137.
fmt_days(t) == decimal(t.days) \o <<"d">>
fmt_hours(t) == zero_padded(t.hours, 2) \o <<"h">>
fmt_minutes(t) == zero_padded(t.minutes, 2) \o <<"m">>
fmt_seconds(t) == zero_padded(t.seconds, 2) \o <<"s">>
fmt_milliseconds(t) == zero_padded(t.milliseconds, 3) \o <<"m", "s">>

\* A plausible slip: the last branch prints the seconds too.
Display_fmt_seconds_kept(t) ==
    IF t.days > 0
    THEN fmt_days(t) \o fmt_hours(t) \o fmt_minutes(t) \o fmt_seconds(t)
             \o fmt_milliseconds(t)
    ELSE IF t.hours > 0
    THEN fmt_hours(t) \o fmt_minutes(t) \o fmt_seconds(t)
             \o fmt_milliseconds(t)
    ELSE IF t.minutes > 0
    THEN fmt_minutes(t) \o fmt_seconds(t) \o fmt_milliseconds(t)
    ELSE fmt_seconds(t) \o fmt_milliseconds(t)

\* impl Display for TimeQuantity (data.rs:117-132): the text, character by
\* character.
Display_fmt(t) ==
    IF t.days > 0
    THEN fmt_days(t) \o fmt_hours(t) \o fmt_minutes(t) \o fmt_seconds(t)
             \o fmt_milliseconds(t)
    ELSE IF t.hours > 0
    THEN fmt_hours(t) \o fmt_minutes(t) \o fmt_seconds(t)
             \o fmt_milliseconds(t)
    ELSE IF t.minutes > 0
    THEN fmt_minutes(t) \o fmt_seconds(t) \o fmt_milliseconds(t)
    ELSE IF t.seconds > 0
    THEN fmt_seconds(t) \o fmt_milliseconds(t)
    ELSE fmt_milliseconds(t)

\* impl Debug for TimeQuantity (data.rs:134-139)
Debug_fmt(t) ==
    fmt_days(t) \o fmt_hours(t) \o fmt_minutes(t) \o fmt_seconds(t)
        \o fmt_milliseconds(t)

\* impl Add for TimeQuantity
TimeQuantity_add(self, rhs) == From_usize(Into_usize(self) + Into_usize(rhs))

\* usize::checked_div(rhs).unwrap_or(0)
checked_div_or_0(a, rhs) == IF rhs = 0 THEN 0 ELSE a \div rhs

\* A plausible slip: a zero divisor leaves the dividend as it is.
TimeQuantity_div_keeps_self(self, rhs) ==
    IF rhs = 0 THEN self ELSE From_usize(Into_usize(self) \div rhs)

\* impl Div<usize> for TimeQuantity
TimeQuantity_div(self, rhs) == From_usize(checked_div_or_0(Into_usize(self), rhs))

\* impl Mul<usize> for TimeQuantity
TimeQuantity_mul(self, rhs) == From_usize(Into_usize(self) * rhs)

\* impl Sum for TimeQuantity: iter.fold(ZERO, |acc, x| acc + x)
RECURSIVE fold_add(_, _)
fold_add(acc, s) ==
    IF s = <<>> THEN acc ELSE fold_add(TimeQuantity_add(acc, Head(s)), Tail(s))

TimeQuantity_sum(s) == fold_add(ZERO, s)

(***************************************************************************)
(* The reducers (data.rs:205-211), for T = TimeQuantity.                   *)
(***************************************************************************)
dataset_sum(list) == Into_usize(TimeQuantity_sum(list))

dataset_average(list) ==
    Into_usize(TimeQuantity_div(TimeQuantity_sum(list), Len(list)))

(***************************************************************************)
(* standard_deviation (main.rs:208-214).  The accumulator is an exact      *)
(* integer (u128 in the source).  The f64 result len^-1.5 * sqrt(acc) is   *)
(* the real number sqrt(acc / len^3); it is kept as that radicand's        *)
(* numerator and denominator, f64 rounding is not modelled.                *)
(***************************************************************************)
RECURSIVE accumulate(_, _, _, _)
accumulate(accumulated, total, iter, len) ==
    IF iter = <<>> THEN accumulated
    ELSE accumulate(accumulated
                      + (len * Head(iter) - total) * (len * Head(iter) - total),
                    total, Tail(iter), len)

\* A plausible slip: the element is not scaled by len before the sum is
\* subtracted.
standard_deviation_unscaled(total, iter, len) ==
    LET RECURSIVE acc(_, _)
        acc(a, s) == IF s = <<>> THEN a
                     ELSE acc(a + (Head(s) - total) * (Head(s) - total), Tail(s))
    IN  [accumulated |-> acc(0, iter), len_cubed |-> len * len * len]

standard_deviation(total, iter, len) ==
    [accumulated |-> accumulate(0, total, iter, len),
     len_cubed |-> len * len * len]

(***************************************************************************)
(* Graph (data.rs:141-203), for T = TimeQuantity.  A graph value g is the  *)
(* record of the struct's fields plus label_calls, the arguments label_fn  *)
(* has been invoked with.                                                  *)
(***************************************************************************)
\* The label closure of call_graph (main.rs:520): "{hours:02}h{minutes:02}m".
label_fn(idx) == [hours |-> idx \div 6, minutes |-> (idx % 6) * 10]

\* The reducer field `sum` applied to one cell.
reduce(reducer, list) ==
    IF reducer = "dataset_sum" THEN dataset_sum(list) ELSE dataset_average(list)

\* authors.iter().position(|x| *x == author): 0 stands for None, positions
\* are counted from 1.
position(registry, author) ==
    IF \E i \in 1..Len(registry) : registry[i] = author
    THEN CHOOSE i \in 1..Len(registry) :
             /\ registry[i] = author
             /\ \A j \in 1..(i - 1) : registry[j] # author
    ELSE 0

\* Graph::new
Graph_new(registry, start, reducer, w) ==
    [labels |-> <<>>, authors |-> registry, data |-> <<>>, start_idx |-> start,
     width |-> w, sum |-> reducer, label_calls |-> <<>>]

\* Lines 167-175 of Graph::add: grow data and labels up to idx inclusive.
grow(g, idx) ==
    IF Len(g.data) <= idx
    THEN [g EXCEPT
            !.data = g.data \o [i \in 1..(idx + 1 - Len(g.data)) |->
                                   [a \in 1..Len(g.authors) |-> <<>>]],
            !.labels = g.labels \o [i \in 1..(idx + 1 - Len(g.labels)) |->
                                       label_fn(Len(g.labels) + i - 1)],
            !.label_calls = g.label_calls \o
                                [i \in 1..(idx + 1 - Len(g.labels)) |->
                                    Len(g.labels) + i - 1]]
    ELSE g

\* A plausible slip: the graph grows before the author is looked up.
Graph_add_grows_first(g, author, idx, quantity) ==
    LET author_index == position(g.authors, author)
        grown == grow(g, idx)
    IN  IF author_index = 0 THEN [ret |-> FALSE, g |-> grown]
        ELSE [ret |-> TRUE,
              g |-> [grown EXCEPT !.data[idx + 1][author_index] =
                                       Append(@, quantity)]]

\* A plausible slip: the graph grows up to idx exclusive, so the get_mut that
\* follows finds no line.
Graph_add_grows_short(g, author, idx, quantity) ==
    LET author_index == position(g.authors, author)
        grown == IF idx = 0 THEN g ELSE grow(g, idx - 1)
    IN  IF author_index = 0 \/ Len(grown.data) <= idx
        THEN [ret |-> FALSE, g |-> IF author_index = 0 THEN g ELSE grown]
        ELSE [ret |-> TRUE,
              g |-> [grown EXCEPT !.data[idx + 1][author_index] =
                                       Append(@, quantity)]]

\* A plausible slip: the value replaces what the cell held.
Graph_add_overwrites(g, author, idx, quantity) ==
    LET author_index == position(g.authors, author)
        grown == grow(g, idx)
    IN  IF author_index = 0 THEN [ret |-> FALSE, g |-> g]
        ELSE IF Len(grown.data) <= idx THEN [ret |-> FALSE, g |-> grown]
        ELSE [ret |-> TRUE,
              g |-> [grown EXCEPT !.data[idx + 1][author_index] =
                                       <<quantity>>]]

\* Graph::add: the value returned and the graph afterwards.  Buckets are
\* indexed from 0 in the source and from 1 in the sequence data.
Graph_add(g, author, idx, quantity) ==
    LET author_index == position(g.authors, author)
        grown == grow(g, idx)
    IN  IF author_index = 0 THEN [ret |-> FALSE, g |-> g]
        ELSE IF Len(grown.data) <= idx THEN [ret |-> FALSE, g |-> grown]
        ELSE [ret |-> TRUE,
              g |-> [grown EXCEPT !.data[idx + 1][author_index] =
                                       Append(@, quantity)]]

(***************************************************************************)
(* generate_progress_bar (main.rs:176-190).  The string is kept as its     *)
(* colour segments (the escape code and the number of full glyphs of each  *)
(* author) and the number of empty glyphs.  An integer division by zero    *)
(* panics in Rust; the panic ends the program.                             *)
(***************************************************************************)
\* A plausible slip: the number of full glyphs is rounded up.
RECURSIVE bar_segments_rounded_up(_, _, _, _, _)
bar_segments_rounded_up(w, max, quantities, reducer, idx) ==
    IF idx >= Len(quantities) THEN <<>>
    ELSE <<[color |-> 92 + idx,
            full |-> (w * reduce(reducer, quantities[idx + 1]) + max - 1)
                         \div max,
            zero_width |-> 1]>>
         \o bar_segments_rounded_up(w, max, quantities, reducer, idx + 1)

\* Lines 180-186: per author the colour escape, the full glyphs, one
\* zero-width space (U+200B, which takes no column) and the colour reset.
RECURSIVE bar_segments(_, _, _, _, _)
bar_segments(w, max, quantities, reducer, idx) ==
    IF idx >= Len(quantities) THEN <<>>
    ELSE <<[color |-> 92 + idx,
            full |-> (w * reduce(reducer, quantities[idx + 1])) \div max,
            zero_width |-> 1]>>
         \o bar_segments(w, max, quantities, reducer, idx + 1)

generate_progress_bar(w, max, quantities, reducer) ==
    IF max = 0 /\ quantities # <<>>
    THEN [status |-> "panic", why |-> "attempt to divide by zero"]
    ELSE LET segments == bar_segments(w, max, quantities, reducer, 0)
             current_quantity ==
                 SeqSum([i \in 1..Len(segments) |-> segments[i].full])
         IN  [status |-> "ok", segments |-> segments,
              empty |-> saturating_sub(w, current_quantity)]

(***************************************************************************)
(* impl Display for Graph (data.rs:182-203).  The header's mean and sd are *)
(* f64 values computed from the same bucket totals; sd is modelled by      *)
(* standard_deviation and fmt_sd below, and both are left out of the       *)
(* rendered header, which keeps sum, width, min and max.                   *)
(***************************************************************************)
\* line.iter().map(|u| (&self.sum)(&u)).sum::<usize>()
bucket_total(g, line) ==
    SeqSum([a \in 1..Len(line) |-> reduce(g.sum, line[a])])

bucket_totals(g) == [i \in 1..Len(g.data) |-> bucket_total(g, g.data[i])]

\* .minmax().into_option().unwrap_or((0, 0))
minmax(totals) ==
    IF totals = <<>> THEN [min |-> 0, max |-> 0]
    ELSE [min |-> CHOOSE t \in {totals[i] : i \in 1..Len(totals)} :
                      \A i \in 1..Len(totals) : t <= totals[i],
          max |-> CHOOSE t \in {totals[i] : i \in 1..Len(totals)} :
                      \A i \in 1..Len(totals) : t >= totals[i]]

\* standard_deviation as Graph::fmt calls it (data.rs:188-190).
fmt_sd(totals) == standard_deviation(SeqSum(totals), totals, Len(totals))

\* (self.start_idx..self.data.len()).chain(0..self.start_idx)
rotation(start, len) ==
    [i \in 1..saturating_sub(len, start) |-> start + i - 1]
        \o [i \in 1..start |-> i - 1]

\* One bucket line of the loop at data.rs:197-199: self.data[idx] panics on
\* an index that is out of bounds.
fmt_line(g, max, idx) ==
    IF idx >= Len(g.data)
    THEN [status |-> "panic", why |-> "index out of bounds"]
    ELSE LET bar == generate_progress_bar(g.width, max, g.data[idx + 1], g.sum)
         IN  IF bar.status = "panic" THEN bar
             ELSE [status |-> "ok", idx |-> idx, label |-> g.labels[idx + 1],
                   bar |-> bar]

\* The bucket lines, in the order given; the first fault ends the rendering.
fmt_lines(g, max, order) ==
    LET line == [i \in 1..Len(order) |-> fmt_line(g, max, order[i])]
        faults == {i \in 1..Len(order) : line[i].status = "panic"}
    IN  IF faults = {} THEN [status |-> "ok", lines |-> line]
        ELSE line[CHOOSE i \in faults : \A j \in faults : i <= j]

Graph_fmt(g) ==
    LET totals == bucket_totals(g)
        mm == minmax(totals)
        body == fmt_lines(g, mm.max, rotation(g.start_idx, Len(g.data)))
    IN  IF body.status = "panic" THEN body
        ELSE [status |-> "ok",
              header |-> [sum |-> SeqSum(totals), width |-> g.width,
                          min |-> mm.min, max |-> mm.max],
              legend |-> [i \in 1..Len(g.authors) |->
                             [color |-> 92 + ((i - 1) % 5),
                              author |-> g.authors[i]]],
              lines |-> body.lines]

(***************************************************************************)
(* chrono's NaiveDateTime accessors, on milliseconds since midnight of     *)
(* day 0.                                                                  *)
(***************************************************************************)
hour(t) == (t % (1000 * 60 * 60 * 24)) \div (1000 * 60 * 60)
minute(t) == (t % (1000 * 60 * 60)) \div (1000 * 60)
second(t) == (t % (1000 * 60)) \div 1000
with_minute(t, m) == t - minute(t) * (1000 * 60) + m * (1000 * 60)
with_second(t, sec) == t - second(t) * 1000 + sec * 1000
with_nanosecond_0(t) == t - (t % 1000)

\* Call::duration (serde_structs.rs:276-278), in milliseconds.
duration(call) == Max2(call.end_timestamp - call.start_timestamp, 0)

\* A plausible slip: the for loop has no filter.
every_call(call) == TRUE

\* The filter of the for loop (main.rs:522).
long_enough(call) == duration(call) >= 15 * 1000

(***************************************************************************)
(* call_graph (main.rs:515-544).                                           *)
(***************************************************************************)
\* main.rs:524 and 527: the timestamp cut down to its 10-minute bucket.
bucket_start(t) ==
    with_nanosecond_0(with_second(with_minute(t, (minute(t) \div 10) * 10), 0))

\* main.rs:525
first_index(start_time) == hour(start_time) * 6 + minute(start_time) \div 10

\* main.rs:528
head_duration(call) ==
    call.start_timestamp - bucket_start(call.start_timestamp)

\* A plausible slip: the head is not taken off the duration.
tail_millis_whole(call) == duration(call)

\* main.rs:532
tail_millis(call) == saturating_sub(duration(call), head_duration(call))

\* The step of the model that calls Graph::add.
DoAdd(author, idx, quantity) ==
    LET r == Graph_add(graph, author, idx, quantity)
    IN  /\ graph' = r.g
        /\ adds' = Append(adds, [author |-> author, idx |-> idx,
                                 quantity |-> quantity, ret |-> r.ret])

\* The for loop passes over a call the filter rejects.
CallSkip ==
    /\ pc = "for"
    /\ pos < Len(dms.calls)
    /\ ~long_enough(dms.calls[pos + 1])
    /\ pos' = pos + 1
    /\ UNCHANGED <<fnVars, pngVars, graphVars, dms, pc, index, remaining_millis>>
    /\ UNCHANGED menuVars

\* main.rs:523-532: the head of the call goes to the bucket of its start.
CallHead ==
    /\ pc = "for"
    /\ pos < Len(dms.calls)
    /\ LET call == dms.calls[pos + 1]
           idx == first_index(call.start_timestamp)
       IN  /\ long_enough(call)
           /\ DoAdd(call.author, idx, From_usize(head_duration(call)))
           /\ index' = idx + 1
           /\ IF bucket_start(call.start_timestamp)
                    # bucket_start(call.end_timestamp)
              THEN /\ remaining_millis' = tail_millis(call)
                   /\ pc' = "while"
                   /\ pos' = pos
              ELSE /\ remaining_millis' = remaining_millis
                   /\ pc' = "for"
                   /\ pos' = pos + 1
    /\ UNCHANGED <<fnVars, pngVars, rendered, dms>>
    /\ UNCHANGED menuVars

\* main.rs:533-537: one turn of the while loop.
CallTail ==
    /\ pc = "while"
    /\ remaining_millis > 0
    /\ DoAdd(dms.calls[pos + 1].author, index % (24 * 6),
             From_usize(Min2(remaining_millis, 10 * 60 * 1000)))
    /\ remaining_millis' = saturating_sub(remaining_millis, 10 * 60 * 1000)
    /\ index' = index + 1
    /\ UNCHANGED <<fnVars, pngVars, rendered, dms, pos, pc>>
    /\ UNCHANGED menuVars

\* main.rs:533: the while loop ends.
CallTailEnd ==
    /\ pc = "while"
    /\ remaining_millis = 0
    /\ pc' = "for"
    /\ pos' = pos + 1
    /\ UNCHANGED <<fnVars, pngVars, graphVars, dms, index, remaining_millis>>
    /\ UNCHANGED menuVars

\* main.rs:541: writeln!(&mut buf, "{graph}").
CallRender ==
    /\ pc = "for"
    /\ pos = Len(dms.calls)
    /\ rendered' = Graph_fmt(graph)
    /\ pc' = "done"
    /\ UNCHANGED <<fnVars, pngVars, graph, adds, dms, pos, index, remaining_millis>>
    /\ UNCHANGED menuVars

(***************************************************************************)
(* The message logs call_graph is run on.  channel.authors holds every     *)
(* author of a message (serde_structs.rs:52-59), so the author of a call   *)
(* is always in the registry.                                              *)
(***************************************************************************)
Registries == {<<"A", "B">>, <<"B", "A">>}

StartTimes == {0, 5 * 60 * 1000, (23 * 60 + 50) * 60 * 1000}

Durations == {0 - 60 * 1000, 0, 10 * 1000, 30 * 1000, 2 * 60 * 1000,
              12 * 60 * 1000, 20 * 60 * 1000,
              1000 * 60 * 60 * 24 + 12 * 60 * 1000}

Calls == {[author |-> a, start_timestamp |-> t, end_timestamp |-> t + d] :
              a \in {"A", "B"}, t \in StartTimes, d \in Durations}

NoOperation == [op |-> "none"]

NotRendered == [status |-> "none"]

\* call_png has not been entered.
PngIdle ==
    /\ png_quantities = <<>>
    /\ png_adds = <<>>
    /\ ms_per_px = 0
    /\ x = 0
    /\ heights = <<>>
    /\ stack_idx = 0
    /\ remaining_quantity = 0
    /\ y = 0
    /\ image = <<>>

\* select_data_calculations has not been entered.
MenuIdle ==
    /\ selected = <<>>
    /\ selected_line = 0
    /\ screen = <<>>
    /\ returned = <<>>
    /\ key = "none"
    /\ presses = 0
    /\ toggles = <<>>

FnIdle ==
    /\ in_u = 0
    /\ in_list = <<>>
    /\ in_k = 0
    /\ out = NoOperation

Init ==
    /\ FnIdle
    /\ PngIdle
    /\ MenuIdle
    /\ dms \in {[authors |-> r, calls |-> c] :
                    r \in Registries, c \in SeqsUpTo(Calls, MaxCalls)}
    /\ graph = Graph_new(dms.authors, 5 * 6 + 3, "dataset_sum", 50)
    /\ adds = <<>>
    /\ rendered = NotRendered
    /\ pos = 0
    /\ pc = "for"
    /\ index = 0
    /\ remaining_millis = 0

Next == CallSkip \/ CallHead \/ CallTail \/ CallTailEnd \/ CallRender

Spec == Init /\ [][Next]_vars

(***************************************************************************)
(* call_graph, and the conversion of the time between the two timestamps   *)
(* of a call of the log to a TimeQuantity.                                 *)
(***************************************************************************)
ApplyFromDelta ==
    /\ out = NoOperation
    /\ \E i \in 1..Len(dms.calls) :
           LET value == dms.calls[i].end_timestamp
                            - dms.calls[i].start_timestamp
           IN  out' = [op |-> "from_delta", arg |-> value,
                       val |-> From_TimeDelta(value)]
    /\ UNCHANGED <<in_u, in_list, in_k, graphVars, callVars, pngVars>>
    /\ UNCHANGED menuVars

NextIntervals == Next \/ ApplyFromDelta

SpecIntervals == Init /\ [][NextIntervals]_vars

(***************************************************************************)
(* A Graph used directly: constructed by Graph::new, populated by calls of *)
(* Graph::add with any author (registered or not) and any bucket index,    *)
(* then rendered once.                                                     *)
(***************************************************************************)
Reducers == {"dataset_sum", "dataset_average"}

AddAuthors == {"A", "B", "C"}

AddQuantities == {From_usize(0), From_usize(3), From_usize(7)}

\* Registries of a Graph: two authors, and six authors of whom two bear the
\* same name.
GraphRegistries == {<<"A", "B">>, <<"B", "A", "B", "D", "E", "F">>}

CallIdle ==
    /\ dms = [authors |-> <<>>, calls |-> <<>>]
    /\ pos = 0
    /\ pc = "graph"
    /\ index = 0
    /\ remaining_millis = 0

InitGraph ==
    /\ FnIdle
    /\ PngIdle
    /\ MenuIdle
    /\ CallIdle
    /\ graph \in {Graph_new(r, st, red, 50) :
                      r \in GraphRegistries, st \in {0, MaxStart},
                      red \in Reducers}
    /\ adds = <<>>
    /\ rendered = NotRendered

ApiAdd ==
    /\ rendered = NotRendered
    /\ Len(adds) < MaxAdds
    /\ \E author \in AddAuthors, idx \in {0, MaxIdx},
          quantity \in AddQuantities :
           DoAdd(author, idx, quantity)
    /\ UNCHANGED <<fnVars, pngVars, rendered, callVars>>
    /\ UNCHANGED menuVars

ApiRender ==
    /\ rendered = NotRendered
    /\ rendered' = Graph_fmt(graph)
    /\ UNCHANGED <<fnVars, pngVars, graph, adds, callVars>>
    /\ UNCHANGED menuVars

NextGraph == ApiAdd \/ ApiRender

SpecGraph == InitGraph /\ [][NextGraph]_vars

(***************************************************************************)
(* The duration operations and the reducers applied to drawn operands.     *)
(***************************************************************************)
UnitEdges == {1000, 1000 * 60, 1000 * 60 * 60}
                 \cup {d * (1000 * 60 * 60 * 24) : d \in 1..MaxDays}

MsValues == {0, 1, 1000 * 60 * 60 * 24 + 1000 * 60 * 60 + 1000 * 60 + 1000 + 1}
                \cup {e + o : e \in UnitEdges, o \in {0 - 1, 0, 1}}

ListValues == {0, 999, 1000 * 60, MaxDays * (1000 * 60 * 60 * 24) + 1}

GraphIdle ==
    /\ graph = Graph_new(<<>>, 0, "dataset_sum", 50)
    /\ adds = <<>>
    /\ rendered = NotRendered

InitTQ ==
    /\ in_u \in MsValues
    /\ in_list \in SeqsUpTo(ListValues, MaxLen)
    /\ in_k \in 0..MaxK
    /\ out = NoOperation
    /\ GraphIdle
    /\ CallIdle
    /\ PngIdle
    /\ MenuIdle

\* The operand list as the durations the program would hold.
quantities(list) == [i \in 1..Len(list) |-> From_usize(list[i])]

ApplyFrom ==
    /\ out = NoOperation
    /\ out' = [op |-> "from", val |-> From_usize(in_u)]
    /\ UNCHANGED <<in_u, in_list, in_k, graphVars, callVars, pngVars>>
    /\ UNCHANGED menuVars

ApplyInto ==
    /\ out.op = "from"
    /\ out' = [op |-> "into", val |-> Into_usize(out.val)]
    /\ UNCHANGED <<in_u, in_list, in_k, graphVars, callVars, pngVars>>
    /\ UNCHANGED menuVars

ApplyAdd ==
    /\ out = NoOperation
    /\ Len(in_list) >= 2
    /\ out' = [op |-> "add",
               val |-> TimeQuantity_add(From_usize(in_list[1]),
                                        From_usize(in_list[2]))]
    /\ UNCHANGED <<in_u, in_list, in_k, graphVars, callVars, pngVars>>
    /\ UNCHANGED menuVars

ApplyMul ==
    /\ out = NoOperation
    /\ out' = [op |-> "mul", val |-> TimeQuantity_mul(From_usize(in_u), in_k)]
    /\ UNCHANGED <<in_u, in_list, in_k, graphVars, callVars, pngVars>>
    /\ UNCHANGED menuVars

ApplyDiv ==
    /\ out = NoOperation
    /\ out' = [op |-> "div", val |-> TimeQuantity_div(From_usize(in_u), in_k)]
    /\ UNCHANGED <<in_u, in_list, in_k, graphVars, callVars, pngVars>>
    /\ UNCHANGED menuVars

ApplySum ==
    /\ out = NoOperation
    /\ out' = [op |-> "sum", val |-> TimeQuantity_sum(quantities(in_list))]
    /\ UNCHANGED <<in_u, in_list, in_k, graphVars, callVars, pngVars>>
    /\ UNCHANGED menuVars

ApplyDatasetSum ==
    /\ out = NoOperation
    /\ out' = [op |-> "dataset_sum", val |-> dataset_sum(quantities(in_list))]
    /\ UNCHANGED <<in_u, in_list, in_k, graphVars, callVars, pngVars>>
    /\ UNCHANGED menuVars

ApplyDatasetAverage ==
    /\ out = NoOperation
    /\ out' = [op |-> "dataset_average",
               val |-> dataset_average(quantities(in_list))]
    /\ UNCHANGED <<in_u, in_list, in_k, graphVars, callVars, pngVars>>
    /\ UNCHANGED menuVars

\* write!(f, "{}", TimeQuantity::from(in_u))
ApplyDisplay ==
    /\ out = NoOperation
    /\ out' = [op |-> "display", val |-> From_usize(in_u),
               text |-> Display_fmt(From_usize(in_u))]
    /\ UNCHANGED <<in_u, in_list, in_k, graphVars, callVars, pngVars>>
    /\ UNCHANGED menuVars

\* write!(f, "{:?}", TimeQuantity::from(in_u))
ApplyDebug ==
    /\ out = NoOperation
    /\ out' = [op |-> "debug", val |-> From_usize(in_u),
               text |-> Debug_fmt(From_usize(in_u))]
    /\ UNCHANGED <<in_u, in_list, in_k, graphVars, callVars, pngVars>>
    /\ UNCHANGED menuVars

NextTQ ==
    \/ ApplyFrom \/ ApplyInto \/ ApplyAdd \/ ApplyMul \/ ApplyDiv
    \/ ApplySum \/ ApplyDatasetSum \/ ApplyDatasetAverage
    \/ ApplyDisplay \/ ApplyDebug

SpecTQ == InitTQ /\ [][NextTQ]_vars

(***************************************************************************)
(* standard_deviation applied to drawn lists of bucket totals.             *)
(***************************************************************************)
InitSd ==
    /\ in_u = 0
    /\ in_list \in SeqsUpTo(0..SdMaxVal, SdMaxLen)
    /\ in_k = 0
    /\ out = NoOperation
    /\ GraphIdle
    /\ CallIdle
    /\ PngIdle
    /\ MenuIdle

ApplySd ==
    /\ out = NoOperation
    /\ out' = [op |-> "standard_deviation", val |-> fmt_sd(in_list)]
    /\ UNCHANGED <<in_u, in_list, in_k, graphVars, callVars, pngVars>>
    /\ UNCHANGED menuVars

NextSd == ApplySd

SpecSd == InitSd /\ [][NextSd]_vars

(***************************************************************************)
(* call_png (main.rs:546-610): the calls are split over NUM_QUANTITIES     *)
(* buckets of QUANTITY_PER milliseconds, then one column per bucket is     *)
(* drawn on the image.                                                     *)
(***************************************************************************)
NUM_QUANTITIES == 24 * 60 * 4

QUANTITY_PER == (1000 * 60 * 60 * 24) \div NUM_QUANTITIES

\* main.rs:581: width = quantities.len().
png_width == NUM_QUANTITIES

\* main.rs:581: height = ceil(quantities.len() / TAU), with TAU = 6.2832
\* to four decimals: the least h with h * TAU >= quantities.len().
png_height ==
    CHOOSE h \in 1..NUM_QUANTITIES :
        /\ NUM_QUANTITIES * 10000 <= h * 62832
        /\ (h - 1) * 62832 < NUM_QUANTITIES * 10000

\* quantities[i]: one amount per author, vec![0; authors.len()] at first.
quantities_at(q, i, n) == IF i \in DOMAIN q THEN q[i] ELSE [a \in 1..n |-> 0]

\* quantities[i][a] += v, a counted from 1.
add_quantity(q, i, a, v, n) ==
    [j \in DOMAIN q \cup {i} |->
        IF j = i THEN [quantities_at(q, i, n) EXCEPT ![a] = @ + v] ELSE q[j]]

\* main.rs:564 and 567: the timestamp cut down to its minute.
minute_start(t) == with_nanosecond_0(with_second(t, 0))

\* main.rs:565
png_first_index(start_time) ==
    (((hour(start_time) * 60 + minute(start_time)) * 60 + second(start_time))
         * 1000) \div QUANTITY_PER

\* main.rs:568
png_head_duration(call) ==
    call.start_timestamp - minute_start(call.start_timestamp)

\* main.rs:572
png_tail_millis(call) ==
    saturating_sub(duration(call), png_head_duration(call))

\* A plausible slip: a turn of a while loop leaves the remainder as it was.
after_turn_stuck(remaining, step) == remaining

\* main.rs:576 and 596: remaining = remaining.saturating_sub(step).
after_turn(remaining, step) == saturating_sub(remaining, step)

\* A plausible slip: the plain division, which rounds down.
div_rounds_down(a, b) == a \div b

\* usize::div_ceil
div_ceil(a, b) == (a + b - 1) \div b

\* A plausible slip: the largest bucket total, without the 1 added to it.
max_ms_exact(q) ==
    LET sums == {SeqSum(q[i]) : i \in DOMAIN q} \cup {0}
    IN  CHOOSE m \in sums : \A t \in sums : t <= m

\* main.rs:582: the largest of the bucket totals plus 1.  A bucket that was
\* never added to counts 0 + 1, and there are more buckets than additions.
max_ms(q) ==
    LET sums == {SeqSum(q[i]) + 1 : i \in DOMAIN q} \cup {1}
    IN  CHOOSE m \in sums : \A t \in sums : t <= m

\* main.rs:583
ms_per_px_of(q) == div_ceil(max_ms(q), png_height)

\* A plausible slip: the column is taken for the index of its bucket.
quantities_index_unshifted(col) == col % png_width

\* main.rs:589: the index of the bucket drawn in column col.
quantities_index(col) == (col + (11 * NUM_QUANTITIES) \div 48) % png_width

\* main.rs:590: the bucket drawn in column col.
section_of(q, col, n) == quantities_at(q, quantities_index(col), n)

\* main.rs:591: the row each author's stack starts in.  In a usize the
\* subtraction cannot go below 0: a negative entry stands for the overflow.
heights_of(section, mpp) ==
    [i \in 1..Len(section) |->
        png_height - 1
            - SeqSum([j \in 1..(i - 1) |-> section[j] \div mpp])]

\* A plausible slip: the remaining quantity is not capped at ms_per_px.
alpha_uncapped(r, mpp) == ((r * 255) \div mpp) % 256

\* main.rs:594: (remaining_quantity.min(ms_per_px) * 0xFF / ms_per_px) as u8
alpha_of(r, mpp) == ((Min2(r, mpp) * 255) \div mpp) % 256

\* The for loop of main.rs:592 goes from the last author to the first; an
\* author whose amount is 0 is passed without a blend.  The idx (from 0) of
\* the next author below `below` that has something to draw, or -1.
next_author(section, below) ==
    LET some == {i \in 0..(below - 1) : section[i + 1] > 0}
    IN  IF some = {} THEN 0 - 1 ELSE CHOOSE i \in some : \A j \in some : j <= i

\* image.get_pixel_mut(x, y).blend(..): the blend is recorded under its
\* column and author, after those already made there.
blend(img, col, a, px, n) ==
    [c \in DOMAIN img \cup {col} |->
        IF c = col
        THEN [(IF col \in DOMAIN img THEN img[col] ELSE [k \in 1..n |-> <<>>])
                  EXCEPT ![a] = Append(@, px)]
        ELSE img[c]]

\* A panic in call_png ends the program.
PngFault ==
    /\ pc' = "png_fault"
    /\ UNCHANGED <<dms, pos, index, remaining_millis, pngVars>>

\* The step of the model that adds to a bucket.
DoPngAdd(author_idx, i, v) ==
    /\ png_quantities' = add_quantity(png_quantities, i, author_idx, v,
                                      Len(dms.authors))
    /\ png_adds' = Append(png_adds, [author_idx |-> author_idx, index |-> i,
                                     amount |-> v])

\* The for loop of main.rs:561 passes over a call the filter rejects.
PngSkip ==
    /\ pc = "png_for"
    /\ pos < Len(dms.calls)
    /\ ~long_enough(dms.calls[pos + 1])
    /\ pos' = pos + 1
    /\ UNCHANGED <<fnVars, graphVars, dms, pc, index, remaining_millis,
                   pngVars>>
    /\ UNCHANGED menuVars

\* main.rs:562-572: the head of the call goes to the bucket of its start.
PngHead ==
    /\ pc = "png_for"
    /\ pos < Len(dms.calls)
    /\ LET call == dms.calls[pos + 1]
           author_idx == position(dms.authors, call.author)
           first == png_first_index(call.start_timestamp)
       IN  /\ long_enough(call)
           /\ IF author_idx = 0
              THEN PngFault
              ELSE /\ DoPngAdd(author_idx, first, png_head_duration(call))
                   /\ index' = (first + 1) % NUM_QUANTITIES
                   /\ IF minute_start(call.start_timestamp)
                            # minute_start(call.end_timestamp)
                      THEN /\ remaining_millis' = png_tail_millis(call)
                           /\ pc' = "png_while"
                           /\ pos' = pos
                      ELSE /\ remaining_millis' = remaining_millis
                           /\ pc' = "png_for"
                           /\ pos' = pos + 1
                   /\ UNCHANGED <<dms, ms_per_px, x, heights, stack_idx,
                                  remaining_quantity, y, image>>
    /\ UNCHANGED <<fnVars, graphVars>>
    /\ UNCHANGED menuVars

\* main.rs:573-577: one turn of the while loop.
PngTail ==
    /\ pc = "png_while"
    /\ remaining_millis > 0
    /\ DoPngAdd(position(dms.authors, dms.calls[pos + 1].author), index,
                Min2(remaining_millis, QUANTITY_PER))
    /\ remaining_millis' = after_turn(remaining_millis, QUANTITY_PER)
    /\ index' = (index + 1) % NUM_QUANTITIES
    /\ UNCHANGED <<fnVars, graphVars, dms, pos, pc, ms_per_px, x, heights,
                   stack_idx, remaining_quantity, y, image>>
    /\ UNCHANGED menuVars

\* main.rs:573: the while loop ends.
PngTailEnd ==
    /\ pc = "png_while"
    /\ remaining_millis = 0
    /\ pc' = "png_for"
    /\ pos' = pos + 1
    /\ UNCHANGED <<fnVars, graphVars, dms, index, remaining_millis, pngVars>>
    /\ UNCHANGED menuVars

\* main.rs:581-585: the scale of the image, and the base image.
PngScale ==
    /\ pc = "png_for"
    /\ pos = Len(dms.calls)
    /\ ms_per_px' = ms_per_px_of(png_quantities)
    /\ image' = <<>>
    /\ x' = 0
    /\ pc' = "png_columns"
    /\ UNCHANGED <<fnVars, graphVars, dms, pos, index, remaining_millis,
                   png_quantities, png_adds, heights, stack_idx,
                   remaining_quantity, y>>
    /\ UNCHANGED menuVars

\* After column x: the for loop of main.rs:586 moves on.
NextColumn ==
    /\ x' = x + 1
    /\ pc' = "png_columns"
    /\ stack_idx' = 0
    /\ remaining_quantity' = 0
    /\ y' = 0

\* The stack of the author idx (from 0) of the column is begun.
BeginStack(section, hs, idx) ==
    /\ x' = x
    /\ pc' = "png_pixels"
    /\ stack_idx' = idx
    /\ remaining_quantity' = section[idx + 1]
    /\ y' = hs[idx + 1]

\* main.rs:586-592: a column is entered, its start rows are computed, and
\* the authors are passed down to the first that has something to draw.
\* x / ms_per_px is evaluated when there are two authors or more, and panics
\* when ms_per_px is 0.  A start row below 0 panics in a build with overflow
\* checks and wraps in one without.
PngColumn ==
    /\ pc = "png_columns"
    /\ x < png_width
    /\ LET section == section_of(png_quantities, x, Len(dms.authors))
       IN  IF Len(section) >= 2 /\ ms_per_px = 0
           THEN PngFault
           ELSE LET hs == heights_of(section, ms_per_px)
                    first == next_author(section, Len(section))
                IN  \E overflow_checks \in BOOLEAN :
                        IF overflow_checks
                               /\ \E i \in 1..Len(hs) : hs[i] < 0
                        THEN PngFault
                        ELSE /\ heights' = hs
                             /\ IF first < 0 THEN NextColumn
                                ELSE BeginStack(section, hs, first)
                             /\ UNCHANGED <<dms, pos, index, remaining_millis,
                                            png_quantities, png_adds,
                                            ms_per_px, image>>
    /\ UNCHANGED <<fnVars, graphVars>>
    /\ UNCHANGED menuVars

\* main.rs:593-597: one turn of the while loop, one pixel blended; after the
\* last turn for an author the authors below are passed down to the next
\* that has something to draw.  get_pixel_mut panics on a pixel outside the
\* image, the division on ms_per_px = 0.
PngPixel ==
    /\ pc = "png_pixels"
    /\ remaining_quantity > 0
    /\ IF ~(x \in 0..(png_width - 1) /\ y \in 0..(png_height - 1))
              \/ ms_per_px = 0
       THEN PngFault
       ELSE LET section == section_of(png_quantities, x, Len(dms.authors))
                left == after_turn(remaining_quantity, ms_per_px)
                below == next_author(section, stack_idx)
            IN  /\ image' = blend(image, x, stack_idx + 1,
                                  [y |-> y,
                                   alpha |-> alpha_of(remaining_quantity,
                                                      ms_per_px)],
                                  Len(dms.authors))
                /\ IF left > 0
                   THEN /\ remaining_quantity' = left
                        /\ y' = saturating_sub(y, 1)
                        /\ UNCHANGED <<x, pc, stack_idx>>
                   ELSE IF below < 0 THEN NextColumn
                        ELSE BeginStack(section, heights, below)
                /\ UNCHANGED <<dms, pos, index, remaining_millis,
                               png_quantities, png_adds, ms_per_px, heights>>
    /\ UNCHANGED <<fnVars, graphVars>>
    /\ UNCHANGED menuVars

\* main.rs:601-605: every column is drawn, the file is written.
PngWrite ==
    /\ pc = "png_columns"
    /\ x = png_width
    /\ pc' = "png_done"
    /\ UNCHANGED <<fnVars, graphVars, dms, pos, index, remaining_millis,
                   pngVars>>
    /\ UNCHANGED menuVars

NextPng ==
    \/ PngSkip \/ PngHead \/ PngTail \/ PngTailEnd
    \/ PngScale \/ PngColumn \/ PngPixel \/ PngWrite

(***************************************************************************)
(* The message logs call_png is run on, with two authors: a call of 90 s   *)
(* from 05:28:20.500, a call of 30 s from 05:28:45, and a call of 10 s,    *)
(* which the filter rejects.                                               *)
(***************************************************************************)
MaxPngCalls == 2  \* calls in the message log read by call_png

PngCalls ==
    {[author |-> "A", start_timestamp |-> ((5 * 60 + 28) * 60 + 20) * 1000 + 500,
      end_timestamp |-> ((5 * 60 + 28) * 60 + 20) * 1000 + 500 + 90 * 1000],
     [author |-> "B", start_timestamp |-> ((5 * 60 + 28) * 60 + 45) * 1000,
      end_timestamp |-> ((5 * 60 + 28) * 60 + 45) * 1000 + 30 * 1000],
     [author |-> "A", start_timestamp |-> (5 * 60 + 29) * 60 * 1000,
      end_timestamp |-> (5 * 60 + 29) * 60 * 1000 + 10 * 1000]}

InitPng ==
    /\ FnIdle
    /\ GraphIdle
    /\ PngIdle
    /\ MenuIdle
    /\ dms \in {[authors |-> <<"A", "B">>, calls |-> c] :
                    c \in SeqsUpTo(PngCalls, MaxPngCalls)}
    /\ pos = 0
    /\ pc = "png_for"
    /\ index = 0
    /\ remaining_millis = 0

SpecPng == InitPng /\ [][NextPng]_vars

(***************************************************************************)
(* The program with both daily reports selected (main.rs:53-55): call_graph*)
(* runs, and once it has returned call_png runs on the same log; or with   *)
(* call_png alone selected.  The logs                                      *)
(* hold calls of 6 min from 23:54:59.999, which pass midnight, and may     *)
(* begin with a call of 10 s, which the filters reject.                    *)
(***************************************************************************)
ReportCalls ==
    {[author |-> "A",
      start_timestamp |-> ((23 * 60 + 54) * 60 + 59) * 1000 + 999,
      end_timestamp |-> ((23 * 60 + 54) * 60 + 59) * 1000 + 999
                            + 6 * 60 * 1000]}

RejectedCalls ==
    {[author |-> "B", start_timestamp |-> (5 * 60 + 29) * 60 * 1000,
      end_timestamp |-> (5 * 60 + 29) * 60 * 1000 + 10 * 1000]}

\* main.rs:53-55: the next selection is called when the one before returned.
NextReport ==
    /\ pc = "done"
    /\ rendered.status = "ok"
    /\ pc' = "png_for"
    /\ pos' = 0
    /\ index' = 0
    /\ remaining_millis' = 0
    /\ UNCHANGED <<fnVars, graphVars, dms, pngVars>>
    /\ UNCHANGED menuVars

InitReports ==
    /\ FnIdle
    /\ PngIdle
    /\ MenuIdle
    /\ dms \in {[authors |-> <<"A", "B">>, calls |-> r \o c] :
                    r \in SeqsUpTo(RejectedCalls, 1),
                    c \in SeqsUpTo(ReportCalls, MaxCalls)}
    /\ graph = Graph_new(dms.authors, 5 * 6 + 3, "dataset_sum", 50)
    /\ adds = <<>>
    /\ rendered = NotRendered
    /\ pos = 0
    /\ pc \in {"for", "png_for"}
    /\ index = 0
    /\ remaining_millis = 0

NextReports == Next \/ NextReport \/ NextPng

SpecReports == InitReports /\ [][NextReports]_vars

(***************************************************************************)
(* select_data_calculations (main.rs:64-174): the menu of the reports.     *)
(* Lines and reports are counted from 0, as in the source; the sequences   *)
(* of the model hold line i at i + 1.  An input that read_valid_input      *)
(* does not return (main.rs:87) changes nothing.  The writes to the        *)
(* terminal are taken to succeed.                                          *)
(***************************************************************************)
MaxPresses == 5  \* inputs the loop of the menu handles before Enter

\* SELECTIONS.len() (main.rs:119-137)
SELECTIONS_len == 17

\* display_line (main.rs:92-117) at the line of the cursor: the line shows
\* the toggle and the highlight it was given.
display_line(scr, line, toggled, highlighted) ==
    [scr EXCEPT ![line + 1] = [toggled |-> toggled, selected |-> highlighted]]

\* A plausible slip: Up stays on the first line.
line_up_stops(line) == IF line = 0 THEN 0 ELSE line - 1

\* main.rs:162
line_up(line) == (line + SELECTIONS_len - 1) % SELECTIONS_len

\* main.rs:168
line_down(line) == (line + 1) % SELECTIONS_len

\* main.rs:154: (0..SELECTIONS.len()).filter(|&idx| selected[idx]), in order.
RECURSIVE filter_selected(_, _)
filter_selected(sel, idx) ==
    IF idx >= Len(sel) THEN <<>>
    ELSE (IF sel[idx + 1] THEN <<idx>> ELSE <<>>)
             \o filter_selected(sel, idx + 1)

\* One more input is handled.
Pressed(k) ==
    /\ key' = k
    /\ presses' = presses + 1

\* main.rs:156-159
MenuToggle ==
    /\ pc = "menu"
    /\ presses < MaxPresses
    /\ Pressed("Toggle")
    /\ selected' = [selected EXCEPT ![selected_line + 1] = ~@]
    /\ screen' = display_line(screen, selected_line,
                              ~selected[selected_line + 1], TRUE)
    /\ toggles' = [toggles EXCEPT ![selected_line + 1] = @ + 1]
    /\ UNCHANGED <<selected_line, returned, pc>>
    /\ UNCHANGED <<fnVars, graphVars, pngVars, dms, pos, index,
                   remaining_millis>>

\* main.rs:160-165
MenuUp ==
    /\ pc = "menu"
    /\ presses < MaxPresses
    /\ Pressed("Up")
    /\ selected_line' = line_up(selected_line)
    /\ screen' = display_line(
                     display_line(screen, selected_line,
                                  selected[selected_line + 1], FALSE),
                     selected_line', selected[selected_line' + 1], TRUE)
    /\ UNCHANGED <<selected, returned, toggles, pc>>
    /\ UNCHANGED <<fnVars, graphVars, pngVars, dms, pos, index,
                   remaining_millis>>

\* main.rs:166-171
MenuDown ==
    /\ pc = "menu"
    /\ presses < MaxPresses
    /\ Pressed("Down")
    /\ selected_line' = line_down(selected_line)
    /\ screen' = display_line(
                     display_line(screen, selected_line,
                                  selected[selected_line + 1], FALSE),
                     selected_line', selected[selected_line' + 1], TRUE)
    /\ UNCHANGED <<selected, returned, toggles, pc>>
    /\ UNCHANGED <<fnVars, graphVars, pngVars, dms, pos, index,
                   remaining_millis>>

\* main.rs:152-155: Enter returns the reports whose toggle is set.
MenuFinish ==
    /\ pc = "menu"
    /\ Pressed("Enter")
    /\ returned' = filter_selected(selected, 0)
    /\ pc' = "menu_returned"
    /\ UNCHANGED <<selected, selected_line, screen, toggles>>
    /\ UNCHANGED <<fnVars, graphVars, pngVars, dms, pos, index,
                   remaining_millis>>

\* main.rs:83-86: Ctrl-C ends the process.
MenuExit ==
    /\ pc = "menu"
    /\ Pressed("CtrlC")
    /\ pc' = "exit"
    /\ UNCHANGED <<selected, selected_line, screen, returned, toggles>>
    /\ UNCHANGED <<fnVars, graphVars, pngVars, dms, pos, index,
                   remaining_millis>>

NextMenu == MenuToggle \/ MenuUp \/ MenuDown \/ MenuFinish \/ MenuExit

\* main.rs:140-148: no report is toggled, the cursor is on line 0, every
\* line is drawn, line 0 highlighted.
InitMenu ==
    /\ FnIdle
    /\ GraphIdle
    /\ PngIdle
    /\ dms = [authors |-> <<"A", "B">>, calls |-> <<>>]
    /\ pos = 0
    /\ index = 0
    /\ remaining_millis = 0
    /\ pc = "menu"
    /\ selected = [i \in 1..SELECTIONS_len |-> FALSE]
    /\ selected_line = 0
    /\ screen = [i \in 1..SELECTIONS_len |->
                    [toggled |-> FALSE, selected |-> i = 1]]
    /\ returned = <<>>
    /\ key = "none"
    /\ presses = 0
    /\ toggles = [i \in 1..SELECTIONS_len |-> 0]

SpecMenu == InitMenu /\ [][NextMenu]_vars

(***************************************************************************)
(* What the claims speak of.                                               *)
(***************************************************************************)
Last(s) == s[Len(s)]

Registered(author) == position(graph.authors, author) # 0

\* The values held by the cell of bucket idx (from 0) and of the author.
Cell(idx, author) ==
    IF idx < Len(graph.data) /\ Registered(author)
    THEN graph.data[idx + 1][position(graph.authors, author)]
    ELSE <<>>

\* The milliseconds held by the whole graph.
GraphTotal ==
    SeqSum([i \in 1..Len(graph.data) |->
               SeqSum([a \in 1..Len(graph.data[i]) |->
                          SeqSum([k \in 1..Len(graph.data[i][a]) |->
                                     Into_usize(graph.data[i][a][k])])])])

\* The durations of the calls the for loop has handled so far.
HandledDuration ==
    SeqSum([i \in 1..pos |->
               IF long_enough(dms.calls[i]) THEN duration(dms.calls[i]) ELSE 0])

BetweenCalls == pc \in {"for", "done"}

\* The first call of the log has been handled, and no other.
FirstCallHandled == Len(dms.calls) >= 1 /\ pos = 1 /\ pc = "for"

\* C1: whenever call_graph is between two calls, the partial durations added
\* to the buckets sum to the durations of the calls handled: every call adds
\* exactly its duration d.
SplitterConservation == BetweenCalls => GraphTotal = HandledDuration

\* C2: a handled call whose start and end lie in the same bucket b has caused
\* exactly one contribution, the pair (b, d) with d the call's duration.
SplitterSingleBucket ==
    (/\ FirstCallHandled
     /\ long_enough(dms.calls[1])
     /\ bucket_start(dms.calls[1].start_timestamp)
            = bucket_start(dms.calls[1].end_timestamp))
    => adds = <<[author |-> dms.calls[1].author,
                 idx |-> first_index(dms.calls[1].start_timestamp),
                 quantity |-> From_usize(duration(dms.calls[1])),
                 ret |-> TRUE]>>

\* C3: a call from 23:50 to 00:10 of the next day gives 10 minutes to bucket
\* 143 and 10 minutes to bucket 0, and every add succeeds with an index in
\* [0, 144).
WraparoundScenario ==
    (/\ FirstCallHandled
     /\ dms.calls[1].start_timestamp = (23 * 60 + 50) * 60 * 1000
     /\ dms.calls[1].end_timestamp = (24 * 60 + 10) * 60 * 1000)
    => /\ Cell(143, dms.calls[1].author) = <<From_usize(10 * 60 * 1000)>>
       /\ Cell(0, dms.calls[1].author) = <<From_usize(10 * 60 * 1000)>>
       /\ \A i \in 1..Len(adds) : adds[i].ret /\ adds[i].idx \in 0..143

\* The scenario of C4: authors A and B, one call by A from 00:05:00 to
\* 00:17:00, handled.
EndToEndHandled ==
    /\ FirstCallHandled
    /\ dms.calls[1] = [author |-> "A", start_timestamp |-> 5 * 60 * 1000,
                       end_timestamp |-> 17 * 60 * 1000]

\* C4: that call adds 5 minutes to A's cell of bucket 0 and 7 minutes to A's
\* cell of bucket 1, nothing to B and nothing to any other bucket, and the
\* parts sum to the 12 minutes of the call.
EndToEndScenario ==
    EndToEndHandled
    => /\ Cell(0, "A") = <<From_usize(5 * 60 * 1000)>>
       /\ Cell(1, "A") = <<From_usize(7 * 60 * 1000)>>
       /\ Len(graph.data) = 2
       /\ Cell(0, "B") = <<>> /\ Cell(1, "B") = <<>>
       /\ GraphTotal = 12 * 60 * 1000

EndToEndWitness ==
    EndToEndHandled /\ graph.authors = <<"A", "B">> /\ Len(adds) = 2

\* C5: a call of Graph::add with an author that is not in the registry
\* returns false and leaves the whole graph as it was: no bucket, no label,
\* no invocation of label_fn, no value.
AuthorshipGate ==
    [][(adds' # adds /\ ~Registered(Last(adds').author))
          => (Last(adds').ret = FALSE /\ graph' = graph)]_vars

AuthorshipGateWitness ==
    /\ adds # <<>>
    /\ ~Registered(Last(adds).author)
    /\ Last(adds).idx >= Len(graph.data)
    /\ Last(adds).ret = FALSE

\* The bucket indices of the adds that succeeded.
AddedIndices == {adds[i].idx : i \in {j \in 1..Len(adds) : adds[j].ret}}

\* C6: every add with a registered author returns true; data and labels have
\* the same length, 1 + the largest index of a successful add (0 if none);
\* label_fn has been invoked once per slot, in order, labels[i] = label_fn(i);
\* every bucket holds one value list per registered author.
GraphGrowth ==
    /\ \A i \in 1..Len(adds) : Registered(adds[i].author) => adds[i].ret
    /\ Len(graph.data) = Len(graph.labels)
    /\ Len(graph.data) = IF AddedIndices = {} THEN 0
                         ELSE 1 + (CHOOSE m \in AddedIndices :
                                       \A j \in AddedIndices : j <= m)
    /\ graph.label_calls = [i \in 1..Len(graph.data) |-> i - 1]
    /\ \A i \in 1..Len(graph.labels) : graph.labels[i] = label_fn(i - 1)
    /\ \A i \in 1..Len(graph.data) : Len(graph.data[i]) = Len(graph.authors)

GraphGrowthWitness ==
    /\ Len(adds) >= 2
    /\ adds[1].ret /\ adds[2].ret
    /\ adds[1].idx = 0 /\ adds[2].idx >= 2
    /\ Len(graph.data) = adds[2].idx + 1

\* C7: a graph with at least one bucket whose maximum bucket total is 0 is
\* rendered without a fault, every bucket line showing width empty glyphs and
\* no full one.  Only graphs whose start_idx is within the buckets are
\* spoken of, so that no line is read out of bounds.
ZeroMaximumRendering ==
    (/\ rendered # NotRendered
     /\ Len(graph.data) >= 1
     /\ graph.start_idx <= Len(graph.data)
     /\ minmax(bucket_totals(graph)).max = 0)
    => /\ rendered.status = "ok"
       /\ Len(rendered.lines) = Len(graph.data)
       /\ \A i \in 1..Len(rendered.lines) :
              /\ rendered.lines[i].bar.empty = graph.width
              /\ \A a \in 1..Len(rendered.lines[i].bar.segments) :
                     rendered.lines[i].bar.segments[a].full = 0

\* C8: a duration divided by 0 is the zero duration; dataset_average of the
\* empty list is 0, and of a non-empty list the floor of the total
\* milliseconds over the number of elements.
DivisionByZeroYieldsZero ==
    /\ (out.op = "div" /\ in_k = 0) => out.val = ZERO
    /\ out.op = "dataset_average"
           => out.val = IF in_list = <<>> THEN 0
                        ELSE SeqSum(in_list) \div Len(in_list)

DivisionByZeroWitness == out.op = "div" /\ in_k = 0 /\ in_u > 0

\* C9: TimeQuantity::from(u) has hours < 24, minutes < 60, seconds < 60 and
\* milliseconds < 1000, and converts back to exactly u; a + b, d * k and
\* sum(list) are the arithmetic on the millisecond counts.
DurationRoundTrip ==
    /\ out.op = "from"
           => /\ out.val.hours < 24 /\ out.val.minutes < 60
              /\ out.val.seconds < 60 /\ out.val.milliseconds < 1000
              /\ out.val.days >= 0
    /\ out.op = "into" => out.val = in_u
    /\ out.op = "add" => Into_usize(out.val) = in_list[1] + in_list[2]
    /\ out.op = "mul" => Into_usize(out.val) = in_u * in_k
    /\ out.op = "sum" => Into_usize(out.val) = SeqSum(in_list)

DurationRoundTripWitness ==
    out.op = "into" /\ in_u > 1000 * 60 * 60 * 24 /\ out.val = in_u

\* C10: for n >= 1 bucket totals x_i with sum S, standard_deviation
\* accumulates A = sum of (n*x_i - S)^2 and returns sqrt(A / n^3), where
\* A / n^3 is the population variance: A = n * (n * sum of x_i^2 - S^2); for
\* the totals 1,2,3,4,5 the mean is 3, A = 250 = 2 * 5^3.
StandardDeviationIdentity ==
    (out.op = "standard_deviation" /\ Len(in_list) >= 1)
    => LET n == Len(in_list)
           S == SeqSum(in_list)
           squares == SeqSum([i \in 1..n |-> in_list[i] * in_list[i]])
       IN  /\ out.val.accumulated
                  = SeqSum([i \in 1..n |->
                               (n * in_list[i] - S) * (n * in_list[i] - S)])
           /\ out.val.accumulated = n * (n * squares - S * S)
           /\ out.val.len_cubed = n * n * n
           /\ in_list = <<1, 2, 3, 4, 5>>
                  => /\ S = 3 * n
                     /\ out.val.accumulated = 250
                     /\ out.val.accumulated = 2 * out.val.len_cubed

StandardDeviationWitness ==
    out.op = "standard_deviation" /\ in_list = <<1, 2, 3, 4, 5>>

\* The largest bucket total of the graph, the max of Graph::fmt.
MaxBucketTotal == minmax(bucket_totals(graph)).max

\* The bucket indices of the lines of a rendering, in the order emitted.
RenderedOrder == [i \in 1..Len(rendered.lines) |-> rendered.lines[i].idx]

\* start, ..., n-1, 0, ..., start-1, the indices of existing buckets only.
ExistingRotation(start, n) ==
    [i \in 1..saturating_sub(n, start) |-> start + i - 1]
        \o [i \in 1..Min2(start, n) |-> i - 1]

\* C11: a rendering of a graph with any start_idx and any number of buckets
\* (none, or fewer than start_idx, included) ends without a fault and emits
\* one line per existing bucket, in the order start_idx, ..., n-1, 0, ...,
\* start_idx-1.  Graphs that have buckets and a maximum of 0 are left aside:
\* their bars divide by zero.
RotatedRenderingOrder ==
    (/\ rendered # NotRendered
     /\ (Len(graph.data) = 0 \/ MaxBucketTotal > 0))
    => /\ rendered.status = "ok"
       /\ RenderedOrder = ExistingRotation(graph.start_idx, Len(graph.data))

\* The number of full glyphs of a bar.
FullGlyphs(bar) == SeqSum([a \in 1..Len(bar.segments) |-> bar.segments[a].full])

\* C12: in a rendering with maximum bucket total M > 0 and width W, the bar
\* of every bucket has one segment per author, in registry order, of exactly
\* floor(W * reduced value / M) full glyphs, then empty glyphs so that full
\* and empty glyphs are W together; the full glyphs are never more than W.
BarComposition ==
    LET M == MaxBucketTotal
    IN  (rendered.status = "ok" /\ M > 0)
        => \A i \in 1..Len(rendered.lines) :
               LET bar == rendered.lines[i].bar
                   cells == graph.data[rendered.lines[i].idx + 1]
                   full == FullGlyphs(bar)
               IN  /\ Len(bar.segments) = Len(graph.authors)
                   /\ \A a \in 1..Len(bar.segments) :
                          bar.segments[a].full
                              = (graph.width * reduce(graph.sum, cells[a])) \div M
                   /\ full <= graph.width
                   /\ full + bar.empty = graph.width

\* A bar whose segment is a floor that is not exact, with empty glyphs after.
BarCompositionWitness ==
    /\ rendered.status = "ok"
    /\ MaxBucketTotal > 0
    /\ \E i \in 1..Len(rendered.lines) :
           LET bar == rendered.lines[i].bar
               cells == graph.data[rendered.lines[i].idx + 1]
           IN  \E a \in 1..Len(bar.segments) :
                   /\ (graph.width * reduce(graph.sum, cells[a]))
                          % MaxBucketTotal # 0
                   /\ bar.segments[a].full > 0
                   /\ bar.empty > 0

\* C14: in a rendering, the colour code of author i in the legend is the
\* colour code of author i's segment in the bar of every bucket, for a
\* registry of any length.
LegendBarColours ==
    rendered.status = "ok"
    => \A i \in 1..Len(rendered.lines) :
           \A a \in 1..Len(rendered.lines[i].bar.segments) :
               rendered.lines[i].bar.segments[a].color
                   = rendered.legend[a].color

\* The values of the successful adds to bucket b (from 0) and registry
\* position a (from 1), in call order.
AddedTo(b, a) ==
    LET hits == SelectSeq(adds, LAMBDA e : /\ e.ret
                                           /\ e.idx = b
                                           /\ position(graph.authors, e.author)
                                                  = a)
    IN  [k \in 1..Len(hits) |-> hits[k].quantity]

\* C18: after any sequence of adds, every successful add went to a bucket the
\* graph has, and every cell (bucket b, registry position a) holds, in call
\* order, exactly the values of the successful adds with bucket b whose
\* author's first registry entry is a: each add appends to one cell, changes
\* no other and overwrites nothing.
AppendOnlyAccumulation ==
    /\ \A i \in 1..Len(adds) : adds[i].ret => adds[i].idx < Len(graph.data)
    /\ \A b \in 0..(Len(graph.data) - 1) :
           \A a \in 1..Len(graph.authors) : graph.data[b + 1][a] = AddedTo(b, a)

\* Two different values added to the cell of an author whose name is in the
\* registry twice.
AppendOnlyWitness ==
    /\ Len(adds) = 2
    /\ adds[1].ret /\ adds[2].ret
    /\ adds[1].author = "B" /\ adds[2].author = "B"
    /\ adds[1].idx = adds[2].idx
    /\ adds[1].quantity # adds[2].quantity
    /\ Len(graph.authors) = 6 /\ graph.authors[3] = "B"
    /\ graph.data[adds[1].idx + 1][1] = <<adds[1].quantity, adds[2].quantity>>
    /\ graph.data[adds[1].idx + 1][3] = <<>>

\* The time from the start of a call to the end of the 10-minute bucket it
\* starts in: (first_bucket + 1) * w - (start mod C).
TimeToBucketEnd(call) ==
    (first_index(call.start_timestamp) + 1) * (10 * 60 * 1000)
        - (call.start_timestamp % (1000 * 60 * 60 * 24))

\* C15: the first contribution of a handled call goes to the bucket of its
\* start, floor((start mod C) / w), and is the time from the start to the end
\* of that bucket, clamped to the duration of the call.
HeadFragment ==
    (/\ Len(dms.calls) >= 1
     /\ pos + (IF pc = "while" THEN 1 ELSE 0) >= 1
     /\ long_enough(dms.calls[1]))
    => /\ adds # <<>>
       /\ adds[1].author = dms.calls[1].author
       /\ adds[1].idx
              = (dms.calls[1].start_timestamp % (1000 * 60 * 60 * 24))
                    \div (10 * 60 * 1000)
       /\ adds[1].quantity
              = From_usize(Min2(TimeToBucketEnd(dms.calls[1]),
                                duration(dms.calls[1])))

\* The calls of the log that the filters of the two reports accept.
AcceptedCalls == SelectSeq(dms.calls, long_enough)

\* call_png has split every call of the log.
PngAggregated == pc \in {"png_columns", "png_pixels", "png_done"}

\* The contributions of call_graph and of call_png so far, as pairs of a
\* bucket index and milliseconds.
GraphFragments ==
    [i \in 1..Len(adds) |->
        [idx |-> adds[i].idx, amount |-> Into_usize(adds[i].quantity)]]

PngFragments ==
    [i \in 1..Len(png_adds) |->
        [idx |-> png_adds[i].index, amount |-> png_adds[i].amount]]

\* Whether the call starts and ends in different buckets of width w.
Crosses(call, w) ==
    call.start_timestamp \div w # call.end_timestamp \div w

\* What the tail fragments of one call must be, given its fragments so far:
\* consecutive buckets after the first, modulo n, each min(remaining, w) with
\* remaining reduced by w per step from the duration less the head taken.
TailsInOrder(fragments, call, w, n) ==
    \A i \in 2..Len(fragments) :
        /\ fragments[i].idx = (fragments[1].idx + i - 1) % n
        /\ fragments[i].amount
               = Min2(duration(call) - fragments[1].amount - (i - 2) * w, w)
        /\ fragments[i].amount > 0

\* A call that is split has tail fragments when it extends past its first
\* bucket, as many as it takes to bring remaining to 0.
TailsComplete(fragments, call, w) ==
    Len(fragments)
        = 1 + (IF Crosses(call, w)
               THEN (saturating_sub(duration(call), fragments[1].amount)
                         + w - 1) \div w
               ELSE 0)

\* C16: every fragment of either splitter goes to a bucket index in [0, N)
\* and is at most the bucket width w (10 minutes and 144 buckets in
\* call_graph, QUANTITY_PER and NUM_QUANTITIES in call_png); the fragments
\* after the first of a call go to consecutive buckets modulo N, each
\* min(remaining, w) with remaining reduced by w per step, until it is 0.
TailFragments ==
    /\ \A i \in 1..Len(adds) :
           /\ GraphFragments[i].idx \in 0..(24 * 6 - 1)
           /\ GraphFragments[i].amount <= 10 * 60 * 1000
    /\ \A i \in 1..Len(png_adds) :
           /\ PngFragments[i].idx \in 0..(NUM_QUANTITIES - 1)
           /\ PngFragments[i].amount <= QUANTITY_PER
    /\ Len(AcceptedCalls) = 1
           => /\ TailsInOrder(GraphFragments, AcceptedCalls[1],
                              10 * 60 * 1000, 24 * 6)
              /\ TailsInOrder(PngFragments, AcceptedCalls[1],
                              QUANTITY_PER, NUM_QUANTITIES)
              /\ PngAggregated
                     => /\ TailsComplete(GraphFragments, AcceptedCalls[1],
                                         10 * 60 * 1000)
                        /\ TailsComplete(PngFragments, AcceptedCalls[1],
                                         QUANTITY_PER)

\* The splitting of call_graph (main.rs:523-538) with the bucket width w and
\* the number of buckets n in place of 10 minutes and 144.
RECURSIVE split_tail(_, _, _, _)
split_tail(remaining, idx, w, n) ==
    IF remaining = 0 THEN <<>>
    ELSE <<[idx |-> idx % n, amount |-> Min2(remaining, w)]>>
             \o split_tail(saturating_sub(remaining, w), idx + 1, w, n)

split(call, w, n) ==
    LET first == (call.start_timestamp % (1000 * 60 * 60 * 24)) \div w
        head == call.start_timestamp % w
    IN  <<[idx |-> first, amount |-> head]>>
            \o (IF Crosses(call, w)
                THEN split_tail(saturating_sub(duration(call), head),
                                first + 1, w, n)
                ELSE <<>>)

\* The milliseconds call_png holds in the buckets that make up the
\* 10-minute bucket b, and those call_graph holds in bucket b, per author.
Rebucketed(b, a) ==
    LET part == {i \in DOMAIN png_quantities :
                     i \div ((10 * 60 * 1000) \div QUANTITY_PER) = b}
        RECURSIVE total(_)
        total(S) == IF S = {} THEN 0
                    ELSE LET i == CHOOSE j \in S : TRUE
                         IN  png_quantities[i][a] + total(S \ {i})
    IN  total(part)

GraphBucket(b, a) ==
    IF b < Len(graph.data)
    THEN SeqSum([k \in 1..Len(graph.data[b + 1][a]) |->
                    Into_usize(graph.data[b + 1][a][k])])
    ELSE 0

\* C17: when both reports have split the one accepted call of a log,
\* call_graph's fragments are those of its splitting with w = 10 minutes and
\* N = 144, call_png's fragments are those of the same splitting with
\* w = QUANTITY_PER and N = NUM_QUANTITIES (head and same-bucket test taken
\* on the bucket the index is computed from), and per author the buckets of
\* call_png that make up a 10-minute bucket sum to that bucket of call_graph.
SameSplitter ==
    (/\ PngAggregated
     /\ rendered.status = "ok"
     /\ Len(AcceptedCalls) = 1)
    => /\ GraphFragments = split(AcceptedCalls[1], 10 * 60 * 1000, 24 * 6)
       /\ PngFragments = split(AcceptedCalls[1], QUANTITY_PER, NUM_QUANTITIES)
       /\ \A b \in 0..(24 * 6 - 1) :
              \A a \in 1..Len(dms.authors) :
                  Rebucketed(b, a) = GraphBucket(b, a)

\* a is before b in the lexicographic order of sequences of one length.
LexLess(a, b) ==
    \E i \in 1..Len(a) :
        /\ a[i] < b[i]
        /\ \A j \in 1..(i - 1) : a[j] = b[j]

\* A measure of what is left to do: the report and the part of it, the
\* calls left to split, the rest of the call being split, the columns left
\* to draw, the authors left in the column, the rest of the author's amount.
Rank ==
    <<CASE pc \in {"for", "while"} -> 4
        [] pc = "done" -> 3
        [] pc \in {"png_for", "png_while"} -> 2
        [] pc \in {"png_columns", "png_pixels"} -> 1
        [] OTHER -> 0,
      IF pc \in {"for", "png_for"} THEN 2 * (Len(dms.calls) - pos) + 1
      ELSE IF pc \in {"while", "png_while"} THEN 2 * (Len(dms.calls) - pos)
      ELSE 0,
      IF pc \in {"while", "png_while"} THEN remaining_millis ELSE 0,
      IF pc = "png_columns" THEN 2 * (png_width - x) + 1
      ELSE IF pc = "png_pixels" THEN 2 * (png_width - x)
      ELSE 0,
      IF pc = "png_pixels" THEN stack_idx ELSE 0,
      IF pc = "png_pixels" THEN remaining_quantity ELSE 0>>

\* C13: every step of the two reports (a turn of a splitter loop, a pixel
\* blended, a call or a column passed) lowers a measure that is a tuple of
\* natural numbers ordered lexicographically, so no run goes on for ever: a
\* turn of a splitter loop lowers remaining_millis, a turn of the pixel loop
\* lowers remaining_quantity, ms_per_px being at least 1.
Termination ==
    [][/\ LexLess(Rank', Rank)
       /\ \A i \in 1..Len(Rank) : Rank[i] \in Nat /\ Rank'[i] \in Nat
       /\ PngAggregated' => ms_per_px' >= 1]_vars

\* call_graph has returned and call_png is drawing: each of the three while
\* loops has made a turn and has lowered what remained.
TerminationWitness ==
    /\ pc = "png_pixels"
    /\ rendered.status = "ok"
    /\ Len(adds) >= 2
    /\ Len(png_adds) >= 3
    /\ x \in DOMAIN image
    /\ Len(image[x][stack_idx + 1]) >= 2
    /\ 0 < remaining_quantity
    /\ remaining_quantity
           < section_of(png_quantities, x, Len(dms.authors))[stack_idx + 1]

\* The column call_png drew on last.
LastColumn == IF pc = "png_pixels" THEN x ELSE x - 1

\* C19: call_png has no fault; once the scale is computed ms_per_px >= 1;
\* every start row computed is in [0, height); every blend is made on a
\* column in [0, width) and a row in [0, height).
RasterOnCanvas ==
    /\ pc # "png_fault"
    /\ PngAggregated => ms_per_px >= 1
    /\ \A i \in 1..Len(heights) : heights[i] \in 0..(png_height - 1)
    /\ DOMAIN image \subseteq 0..(png_width - 1)
    /\ LastColumn \in DOMAIN image
           => \A a \in 1..Len(image[LastColumn]) :
                  \A k \in 1..Len(image[LastColumn][a]) :
                      image[LastColumn][a][k].y \in 0..(png_height - 1)

\* The column of the bucket with the largest total is drawn, for two
\* authors, up to the rows at the top of the image.
RasterOnCanvasWitness ==
    /\ pc = "png_done"
    /\ ms_per_px > 1
    /\ \E c \in DOMAIN image :
           /\ SeqSum(section_of(png_quantities, c, 2)) + 1
                  = max_ms(png_quantities)
           /\ image[c][1] # <<>>
           /\ image[c][2] # <<>>
           /\ Last(image[c][2]).y < 10

\* C20: in the column drawn last, the k-th blend of author a, whose amount
\* is q, is on row height - 1 - (sum of floor(q_j / ms_per_px) over the
\* authors before a) - (k - 1), with alpha min(r, ms_per_px) * 255 /
\* ms_per_px for r = q - (k - 1) * ms_per_px, which is in [0, 255] and is 255
\* when r >= ms_per_px; an author whose stack is done has ceil(q / ms_per_px)
\* blends; in a finished column the first row of an author is the last row
\* of the author drawn below, or the row above it.
RasterStacking ==
    (PngAggregated /\ LastColumn \in DOMAIN image)
    => LET c == LastColumn
           section == section_of(png_quantities, c, Len(dms.authors))
           drawn == {a \in 1..Len(section) : image[c][a] # <<>>}
       IN  /\ \A a \in 1..Len(section) :
                  LET q == section[a]
                      B == image[c][a]
                      start == png_height - 1
                                   - SeqSum([j \in 1..(a - 1) |->
                                                section[j] \div ms_per_px])
                  IN  /\ \A k \in 1..Len(B) :
                             LET r == q - (k - 1) * ms_per_px
                             IN  /\ r > 0
                                 /\ B[k].y = start - (k - 1)
                                 /\ B[k].alpha
                                        = (Min2(r, ms_per_px) * 255)
                                              \div ms_per_px
                                 /\ B[k].alpha \in 0..255
                                 /\ r >= ms_per_px => B[k].alpha = 255
                      /\ (pc # "png_pixels" \/ a > stack_idx + 1)
                             => Len(B) = (q + ms_per_px - 1) \div ms_per_px
           /\ pc # "png_pixels"
                  => /\ drawn # {}
                     /\ \A a \in drawn :
                            IF \E b \in drawn : b < a
                            THEN LET b == CHOOSE d \in drawn :
                                              /\ d < a
                                              /\ \A e \in drawn :
                                                     e < a => e <= d
                                 IN  image[c][a][1].y
                                         \in {Last(image[c][b]).y,
                                              Last(image[c][b]).y - 1}
                            ELSE image[c][a][1].y = png_height - 1

\* A finished column with two authors, the lower with full rows and a last
\* row that is partial, where the upper begins.
RasterStackingWitness ==
    /\ pc = "png_done"
    /\ \E c \in DOMAIN image :
           /\ Len(image[c][1]) >= 2
           /\ image[c][1][1].alpha = 255
           /\ Last(image[c][1]).alpha < 255
           /\ image[c][2] # <<>>
           /\ image[c][2][1].y = Last(image[c][1]).y
           /\ Len(image[c][2]) >= 2

(***************************************************************************)
(* The vertical scale of the image.                                        *)
(***************************************************************************)
\* The scale has been computed (main.rs:583 is passed).
Scaled == pc \in {"png_columns", "png_pixels", "png_done"}

\* The largest total of a bucket, over the authors; a bucket nothing was
\* added to totals 0.
LargestBucketTotal ==
    LET totals == {SeqSum(png_quantities[i]) : i \in DOMAIN png_quantities}
                      \cup {0}
    IN  CHOOSE m \in totals : \A t \in totals : t <= m

\* k is the quotient a / b rounded up.
IsCeil(k, a, b) == (k - 1) * b < a /\ a <= k * b

\* C21: once the scale is computed, ms_per_px is the largest bucket total
\* divided by the height of the image, rounded up.
VerticalScale ==
    Scaled => IsCeil(ms_per_px, LargestBucketTotal, png_height)

\* C21, as the code has it: ms_per_px is the largest bucket total plus 1,
\* divided by the height of the image, rounded up.
VerticalScalePlusOne ==
    Scaled => IsCeil(ms_per_px, LargestBucketTotal + 1, png_height)

\* The scale is computed for a log whose largest bucket holds more
\* milliseconds than the image has rows, and the division is not exact.
VerticalScaleWitness ==
    /\ Scaled
    /\ LargestBucketTotal > png_height
    /\ ms_per_px > 1
    /\ ms_per_px * png_height > LargestBucketTotal + 1

(***************************************************************************)
(* The columns of the image and the buckets.                               *)
(***************************************************************************)
\* The shift between a column and its bucket.
ColumnShift == (11 * NUM_QUANTITIES) \div 48

\* The column whose bucket is b, if the shift is a bijection.
ColumnOfBucket(b) == (b + NUM_QUANTITIES - ColumnShift) % NUM_QUANTITIES

\* Column c is finished: its author a has one blend for each ms_per_px
\* milliseconds, or part of them, that bucket b holds for a.
DrawnFrom(img, c, b) ==
    LET amounts == quantities_at(png_quantities, b, Len(dms.authors))
    IN  IF c \in DOMAIN img
        THEN \A a \in 1..Len(amounts) :
                 Len(img[c][a]) = (amounts[a] + ms_per_px - 1) \div ms_per_px
        ELSE \A a \in 1..Len(amounts) : amounts[a] = 0

\* C22: in every step taken on a column x, the bucket of x is
\* (x + 11 * N / 48) mod N, which is a bucket of the array; no other column
\* has that bucket, and the bucket of index x has a column; the step leaves
\* the blends of every other column as they were; and when the step
\* finishes the column, what is drawn there is what its bucket holds.
ColumnIndependence ==
    [][(pc \in {"png_columns", "png_pixels"} /\ x < png_width)
       => /\ quantities_index(x) = (x + ColumnShift) % NUM_QUANTITIES
          /\ quantities_index(x) \in 0..(NUM_QUANTITIES - 1)
          /\ ColumnOfBucket(quantities_index(x)) = x
          /\ ColumnOfBucket(x) \in 0..(png_width - 1)
          /\ quantities_index(ColumnOfBucket(x)) = x
          /\ \A c \in DOMAIN image' :
                 c # x => c \in DOMAIN image /\ image'[c] = image[c]
          /\ DOMAIN image \subseteq DOMAIN image'
          /\ x' = x + 1
                 => DrawnFrom(image', x, (x + ColumnShift) % NUM_QUANTITIES)
      ]_vars

\* A column past the wrap of the shift is being drawn, for both authors,
\* while columns drawn before it hold blends.
ColumnIndependenceWitness ==
    /\ pc = "png_pixels"
    /\ x + ColumnShift >= NUM_QUANTITIES
    /\ x \in DOMAIN image
    /\ image[x][2] # <<>>
    /\ stack_idx = 0
    /\ \E c \in DOMAIN image : c < x /\ image[c][1] # <<>>

(***************************************************************************)
(* The two renderings of a duration.                                       *)
(***************************************************************************)
IsDigit(c) == c \in {"0", "1", "2", "3", "4", "5", "6", "7", "8", "9"}

\* The fields read back from a text: each is a run of digits and the run of
\* letters after it.
RECURSIVE FieldsOf(_)
FieldsOf(text) ==
    IF text = <<>> THEN <<>>
    ELSE LET n == Len(text)
             nd == CHOOSE k \in 0..n :
                       /\ \A i \in 1..k : IsDigit(text[i])
                       /\ k < n => ~IsDigit(text[k + 1])
             nl == CHOOSE k \in 0..(n - nd) :
                       /\ \A i \in (nd + 1)..(nd + k) : ~IsDigit(text[i])
                       /\ nd + k < n => IsDigit(text[nd + k + 1])
         IN  IF nd + nl = 0 THEN <<>>
             ELSE <<[digits |-> SubSeq(text, 1, nd),
                     unit |-> SubSeq(text, nd + 1, nd + nl)]>>
                      \o FieldsOf(SubSeq(text, nd + nl + 1, n))

\* The units a text prints, in order.
UnitsOf(text) == [i \in 1..Len(FieldsOf(text)) |-> FieldsOf(text)[i].unit]

AllUnits == <<(<<"d">>), (<<"h">>), (<<"m">>), (<<"s">>), (<<"m", "s">>)>>

\* The units from the k-th down to the milliseconds.
UnitsFrom(k) == SubSeq(AllUnits, k, 5)

\* The number a run of digits writes.
RECURSIVE ValueOf(_)
ValueOf(digits) ==
    IF digits = <<>> THEN 0
    ELSE ValueOf(SubSeq(digits, 1, Len(digits) - 1)) * 10
             + (CHOOSE d \in 0..9 : decimal(d) = <<Last(digits)>>)

\* The most significant unit of t that is not zero, counted from the days;
\* 0 when every unit is zero.
MostSignificant(t) ==
    IF t.days > 0 THEN 1
    ELSE IF t.hours > 0 THEN 2
    ELSE IF t.minutes > 0 THEN 3
    ELSE IF t.seconds > 0 THEN 4
    ELSE IF t.milliseconds > 0 THEN 5
    ELSE 0

\* The full form prints the five units with the five components.
FullForm ==
    out.op = "debug"
    => /\ UnitsOf(out.text) = AllUnits
       /\ LET f == FieldsOf(out.text)
          IN  TimeQuantity_new(ValueOf(f[1].digits), ValueOf(f[2].digits),
                               ValueOf(f[3].digits), ValueOf(f[4].digits),
                               ValueOf(f[5].digits)) = out.val

\* C23: the compact form prints the units from the most significant one
\* that is not zero down to the milliseconds: the five of them when there
\* are days, the seconds and the milliseconds for a duration under one
\* minute; the full form prints the five units.
CompactVsFull ==
    /\ FullForm
    /\ out.op = "display"
       => /\ MostSignificant(out.val) > 0
              => UnitsOf(out.text) = UnitsFrom(MostSignificant(out.val))
          /\ out.val.days > 0 => UnitsOf(out.text) = AllUnits
          /\ Into_usize(out.val) < 60 * 1000
              => UnitsOf(out.text) = UnitsFrom(4)

\* C23, as the code has it: under one minute the compact form prints the
\* seconds and the milliseconds from one second on, and the milliseconds
\* alone under one second, zero included.
CompactVsFullUnderOneSecond ==
    /\ FullForm
    /\ out.op = "display"
       => /\ MostSignificant(out.val) > 0
              => UnitsOf(out.text) = UnitsFrom(MostSignificant(out.val))
          /\ out.val.days > 0 => UnitsOf(out.text) = AllUnits
          /\ (1000 <= Into_usize(out.val) /\ Into_usize(out.val) < 60 * 1000)
              => UnitsOf(out.text) = UnitsFrom(4)
          /\ Into_usize(out.val) < 1000 => UnitsOf(out.text) = UnitsFrom(5)
          /\ LET f == FieldsOf(out.text)
                 full == FieldsOf(Debug_fmt(out.val))
             IN  f = SubSeq(full, 5 - Len(f) + 1, 5)

\* The compact form of a duration under one second that is not zero.
CompactVsFullWitness ==
    /\ out.op = "display"
    /\ 0 < Into_usize(out.val)
    /\ Into_usize(out.val) < 1000
    /\ Len(out.text) = 5

(***************************************************************************)
(* Calls that end when they start, or before.                              *)
(***************************************************************************)
NotAfterStart(call) == call.end_timestamp <= call.start_timestamp

\* The milliseconds each bucket of the graph holds, author by author.
BucketAmounts(g) ==
    [i \in 1..Len(g.data) |->
        [a \in 1..Len(g.data[i]) |->
            SeqSum([k \in 1..Len(g.data[i][a]) |->
                       Into_usize(g.data[i][a][k])])]]

\* C24: the duration of a call that does not end after its start is 0; the
\* step call_graph takes on such a call adds nothing, or the one pair of
\* the bucket of its start and the zero duration, and no bucket holds more
\* milliseconds after it than before; a negative TimeDelta converts to the
\* zero TimeQuantity.
ZeroAndNegativeIntervals ==
    [][/\ (pc = "for" /\ pos < Len(dms.calls)
              /\ NotAfterStart(dms.calls[pos + 1]))
          => LET call == dms.calls[pos + 1]
             IN  /\ duration(call) = 0
                 /\ pc' = "for"
                 /\ \/ adds' = adds
                    \/ /\ Len(adds') = Len(adds) + 1
                       /\ SubSeq(adds', 1, Len(adds)) = adds
                       /\ Last(adds').idx = first_index(call.start_timestamp)
                       /\ Last(adds').quantity = ZERO
                 /\ \A i \in 1..Len(graph'.data) :
                        \A a \in 1..Len(graph'.data[i]) :
                            BucketAmounts(graph')[i][a]
                                = IF i <= Len(graph.data)
                                  THEN BucketAmounts(graph)[i][a] ELSE 0
       /\ (out'.op = "from_delta" /\ out'.arg < 0) => out'.val = ZERO
      ]_vars

\* call_graph has passed a call that ends before it starts and does not
\* start at the beginning of a bucket, and the time between its timestamps
\* has been converted.
ZeroAndNegativeWitness ==
    /\ pc = "done"
    /\ Len(dms.calls) >= 1
    /\ dms.calls[1].end_timestamp < dms.calls[1].start_timestamp
    /\ head_duration(dms.calls[1]) > 0
    /\ out.op = "from_delta"
    /\ out.arg < 0
    /\ out.val = ZERO

(***************************************************************************)
(* The menu of the reports.                                                *)
(***************************************************************************)
\* The lines toggled an odd number of times, in the order of the menu.
RECURSIVE OddlyToggled(_)
OddlyToggled(idx) ==
    IF idx >= SELECTIONS_len THEN <<>>
    ELSE (IF toggles[idx + 1] % 2 = 1 THEN <<idx>> ELSE <<>>)
             \o OddlyToggled(idx + 1)

\* C25: the cursor line is always in [0, number of reports); Up moves it
\* one line up, and from line 0 to the last line; Down moves it one line
\* down, and from the last line to line 0; Up and Down change no toggle;
\* Toggle flips the toggle of the cursor line and no other, and leaves the
\* cursor; Enter returns the reports toggled an odd number of times, in the
\* order of the menu.
MenuBehaviour ==
    [][(pc = "menu" /\ presses' = presses + 1)
       => /\ selected_line \in 0..(SELECTIONS_len - 1)
          /\ selected_line' \in 0..(SELECTIONS_len - 1)
          /\ key' = "Up"
                 => /\ selected_line'
                           = IF selected_line = 0 THEN SELECTIONS_len - 1
                             ELSE selected_line - 1
                    /\ selected' = selected
          /\ key' = "Down"
                 => /\ selected_line'
                           = IF selected_line = SELECTIONS_len - 1 THEN 0
                             ELSE selected_line + 1
                    /\ selected' = selected
          /\ key' = "Toggle"
                 => /\ selected_line' = selected_line
                    /\ \A i \in 1..SELECTIONS_len :
                           selected'[i]
                               = IF i = selected_line + 1 THEN ~selected[i]
                                 ELSE selected[i]
          /\ key' = "Enter"
                 => /\ pc' = "menu_returned"
                    /\ returned' = OddlyToggled(0)
      ]_vars

\* Enter was pressed after Up from line 0 and Down from the last line, with
\* one line toggled twice and another once: the one toggled once is
\* returned.
MenuBehaviourWitness ==
    /\ pc = "menu_returned"
    /\ selected_line = 0
    /\ key = "Enter"
    /\ toggles[SELECTIONS_len] = 1
    /\ toggles[1] = 2
    /\ returned = <<SELECTIONS_len - 1>>

=============================================================================
